---- MODULE Spec2Model ----
(***************************************************************************)
(* code2docx (src/code2docx/cli.py): the token loop of                     *)
(* add_colored_code_block, token_color, is_text_file and main.             *)
(*                                                                         *)
(* Texts are sequences of characters.  The characters that the code treats *)
(* specially are "TAB", "LF", "CR"; "SP" is a space and "x" any other      *)
(* character.  io records, per processed file, what the operating system   *)
(* and the libraries answered: whether open() of is_text_file and the read *)
(* of main succeeded, whether add_colored_code_block was called and raised.*)
(***************************************************************************)
EXTENDS Integers, Sequences, FiniteSets, TLC

VARIABLES
    tokens, lines, pc,                      \* token loop of add_colored_code_block
    tok_type, color,                        \* one call of token_color
    root, entries, pos, any_files, doc, io, run   \* main

segVars == <<tokens, lines, pc>>
colVars == <<tok_type, color>>
mainVars == <<root, entries, pos, any_files, doc, io, run>>
vars == <<tokens, lines, pc, tok_type, color, root, entries, pos, any_files, doc, io, run>>

(* ---------------------------- bounds ----------------------------------- *)
MaxTokens == 3
MaxLen == 3
MaxTotal == 4

(* ------------------------- program constants --------------------------- *)
TabWidth == 4

Chars == {"x", "TAB", "LF", "CR"}

(* token types are tuples of components: Token.Keyword is <<"Keyword">> *)
Categories == {<<"Keyword">>, <<"Comment">>}

RECURSIVE Repeat(_, _)
Repeat(c, n) == IF n = 0 THEN <<>> ELSE <<c>> \o Repeat(c, n - 1)

RECURSIVE TextsOfLen(_)
TextsOfLen(n) ==
    IF n = 0 THEN {<<>>}
    ELSE {<<c>> \o t : c \in Chars, t \in TextsOfLen(n - 1)}

TokenTexts == UNION {TextsOfLen(n) : n \in 0..MaxLen}

(* a Token of the lexer: (tok_type, value) *)
Tokens == {<<ty, v>> : ty \in Categories, v \in TokenTexts}

RECURSIVE Concat(_)
Concat(ss) == IF ss = <<>> THEN <<>> ELSE Head(ss) \o Concat(Tail(ss))

StreamText(toks) == Concat([i \in 1..Len(toks) |-> toks[i][2]])

(* ------------------- str methods used by the token loop ---------------- *)

(* value.replace("\t", " " * 4) *)
RECURSIVE ReplaceTabs(_)
ReplaceTabs(value) ==
    IF value = <<>> THEN <<>>
    ELSE (IF Head(value) = "TAB" THEN Repeat("SP", TabWidth) ELSE <<Head(value)>>)
         \o ReplaceTabs(Tail(value))

(* length of the first part of value, its terminator included; 0 when     *)
(* value is empty.  str.splitlines ends a part at "\n", "\r\n" or "\r".    *)
RECURSIVE FirstPartLen(_)
FirstPartLen(value) ==
    IF value = <<>> THEN 0
    ELSE IF Head(value) = "LF" THEN 1
    ELSE IF Head(value) = "CR"
         THEN (IF Len(value) >= 2 /\ value[2] = "LF" THEN 2 ELSE 1)
    ELSE 1 + FirstPartLen(Tail(value))

(* value.splitlines(keepends=True) *)
RECURSIVE splitlines(_)
splitlines(value) ==
    IF value = <<>> THEN <<>>
    ELSE LET n == FirstPartLen(value)
         IN  <<SubSeq(value, 1, n)>> \o splitlines(SubSeq(value, n + 1, Len(value)))

(* part.endswith(suffix) *)
endswith(part, suffix) ==
    /\ Len(part) >= Len(suffix)
    /\ SubSeq(part, Len(part) - Len(suffix) + 1, Len(part)) = suffix

(* part.rstrip("\r\n"): drops every trailing character that is in chars *)
RECURSIVE rstrip(_, _)
rstrip(part, chars) ==
    IF part # <<>> /\ part[Len(part)] \in chars
    THEN rstrip(SubSeq(part, 1, Len(part) - 1), chars)
    ELSE part

(* lines[-1].append(span) *)
AppendToLast(ls, span) == [ls EXCEPT ![Len(ls)] = Append(@, span)]

(* PartStep with rstrip("\n") in place of rstrip("\r\n") *)
PartStepLFOnly(ls, ty, part) ==
    IF endswith(part, <<"LF">>) \/ endswith(part, <<"CR", "LF">>)
    THEN LET text_part == rstrip(part, {"LF"})
         IN  Append(IF text_part # <<>>
                    THEN AppendToLast(ls, <<ty, text_part>>)
                    ELSE ls, <<>>)
    ELSE IF part # <<>> THEN AppendToLast(ls, <<ty, part>>) ELSE ls

(* body of "for part in parts", lines 103-110 *)
PartStep(ls, ty, part) ==
    IF endswith(part, <<"LF">>) \/ endswith(part, <<"CR", "LF">>)
    THEN LET text_part == rstrip(part, {"CR", "LF"})
         IN  Append(IF text_part # <<>>
                    THEN AppendToLast(ls, <<ty, text_part>>)
                    ELSE ls, <<>>)
    ELSE IF part # <<>> THEN AppendToLast(ls, <<ty, part>>) ELSE ls

RECURSIVE PartsLoop(_, _, _)
PartsLoop(ls, ty, parts) ==
    IF parts = <<>> THEN ls
    ELSE PartsLoop(PartStep(ls, ty, Head(parts)), ty, Tail(parts))

(* body of "for tok_type, value in tokens", lines 99-110 *)
TokenStep(ls, tok) ==
    PartsLoop(ls, tok[1], splitlines(ReplaceTabs(tok[2])))

(* lines 112-113 *)
PopTrailing(ls) ==
    IF Len(ls) > 1 /\ ls[Len(ls)] = <<>> THEN SubSeq(ls, 1, Len(ls) - 1) ELSE ls

(* ------------------------------ token_color --------------------------- *)
(* A string is a sequence of pieces; no piece occurs inside another piece, *)
(* so "key in s" is the search of a contiguous run of pieces.              *)

Components == {"Comment", "Keyword", "Name", "Function", "Class", "Builtin",
               "Namespace", "String", "Number", "Operator", "Punctuation",
               "Text", "Error", "Literal", "Other"}

MaxDepth == 3

RECURSIVE TypesOfDepth(_)
TypesOfDepth(n) ==
    IF n = 0 THEN {<<>>}
    ELSE {<<c>> \o t : c \in Components, t \in TypesOfDepth(n - 1)}

TokenTypes == UNION {TypesOfDepth(n) : n \in 0..MaxDepth}

Pieces(component) ==
    IF component = "Namespace" THEN <<"Name", "space">> ELSE <<component>>

(* str(tok_type): "Token" and the components, joined by "." *)
RECURSIVE DottedTail(_)
DottedTail(ty) ==
    IF ty = <<>> THEN <<>> ELSE <<".">> \o Pieces(Head(ty)) \o DottedTail(Tail(ty))

str(ty) == <<"Token">> \o DottedTail(ty)

(* key in s *)
Contains(s, key) ==
    \E i \in 0..(Len(s) - Len(key)) : SubSeq(s, i + 1, i + Len(key)) = key

TOKEN_COLOR_MAP == <<
    << <<"Comment">>,                <<"8", "0", "8", "0", "8", "0">> >>,
    << <<"Keyword">>,                <<"c", "c", "7", "8", "3", "2">> >>,
    << <<"Name", ".", "Function">>,  <<"f", "f", "c", "6", "6", "d">> >>,
    << <<"Name", ".", "Class">>,     <<"f", "f", "c", "6", "6", "d">> >>,
    << <<"Name", ".", "Builtin">>,   <<"a", "9", "b", "7", "c", "6">> >>,
    << <<"String">>,                 <<"6", "a", "8", "7", "5", "9">> >>,
    << <<"Number">>,                 <<"6", "8", "9", "7", "b", "b">> >>,
    << <<"Operator">>,               <<"a", "9", "b", "7", "c", "6">> >>,
    << <<"Punctuation">>,            <<"a", "9", "b", "7", "c", "6">> >>,
    << <<"Name">>,                   <<"a", "9", "b", "7", "c", "6">> >>,
    << <<"Text">>,                   <<"a", "9", "b", "7", "c", "6">> >>,
    << <<"Error">>,                  <<"f", "f", "0", "0", "0", "0">> >>,
    << <<"Literal">>,                <<"6", "a", "8", "7", "5", "9">> >> >>

CODE_BG_HEX == <<"2", "b", "2", "b", "2", "b">>

(* key in TOKEN_COLOR_MAP *)
InMap(key) == \E i \in 1..Len(TOKEN_COLOR_MAP) : TOKEN_COLOR_MAP[i][1] = key

(* TOKEN_COLOR_MAP[key] *)
MapGet(key) ==
    TOKEN_COLOR_MAP[CHOOSE i \in 1..Len(TOKEN_COLOR_MAP) : TOKEN_COLOR_MAP[i][1] = key][2]

HexDigit(c) ==
    CASE c = "0" -> 0 [] c = "1" -> 1 [] c = "2" -> 2 [] c = "3" -> 3
      [] c = "4" -> 4 [] c = "5" -> 5 [] c = "6" -> 6 [] c = "7" -> 7
      [] c = "8" -> 8 [] c = "9" -> 9 [] c = "a" -> 10 [] c = "b" -> 11
      [] c = "c" -> 12 [] c = "d" -> 13 [] c = "e" -> 14 [] c = "f" -> 15

(* hexstr.lstrip("#") *)
RECURSIVE lstripHash(_)
lstripHash(h) == IF h # <<>> /\ Head(h) = "#" THEN lstripHash(Tail(h)) ELSE h

hex_to_rgb(hexstr) ==
    LET h == lstripHash(hexstr)
    IN  <<16 * HexDigit(h[1]) + HexDigit(h[2]),
          16 * HexDigit(h[3]) + HexDigit(h[4]),
          16 * HexDigit(h[5]) + HexDigit(h[6])>>

PriorityKeys == << <<"Name", ".", "Function">>, <<"Name", ".", "Class">>,
                   <<"Name", ".", "Builtin">> >>

(* the loop of lines 62-65, from table entry i on *)
RECURSIVE TableScan(_, _)
TableScan(s, i) ==
    IF i > Len(TOKEN_COLOR_MAP) THEN hex_to_rgb(MapGet(<<"Text">>))
    ELSE IF Contains(s, TOKEN_COLOR_MAP[i][1]) THEN hex_to_rgb(TOKEN_COLOR_MAP[i][2])
    ELSE TableScan(s, i + 1)

(* the loop of lines 59-61, from priority key i on, then the table loop *)
RECURSIVE PriorityScan(_, _)
PriorityScan(s, i) ==
    IF i > Len(PriorityKeys) THEN TableScan(s, 1)
    ELSE IF Contains(s, PriorityKeys[i]) /\ InMap(PriorityKeys[i])
         THEN hex_to_rgb(MapGet(PriorityKeys[i]))
    ELSE PriorityScan(s, i + 1)

(* token_color without the loop over the priority keys *)
token_color_table_only(ty) == TableScan(str(ty), 1)

token_color(ty) == PriorityScan(str(ty), 1)

(* ----------------- the token loop as a state machine ------------------- *)
(* tokens is the part of the lexer's list that the loop has consumed.      *)

SegIdle == tokens = <<>> /\ lines = <<>> /\ pc = "idle"

ColIdle == tok_type = <<>> /\ color = <<>>

MainIdle ==
    /\ root = [isdir |-> FALSE, files |-> <<>>]
    /\ entries = <<>> /\ pos = 0 /\ any_files = FALSE
    /\ doc = <<>> /\ io = <<>> /\ run = "idle"

SegInit ==
    /\ tokens = <<>>
    /\ lines = << <<>> >>
    /\ pc = "loop"
    /\ ColIdle /\ MainIdle

SegIterate ==
    /\ pc = "loop"
    /\ Len(tokens) < MaxTokens
    /\ \E tok \in Tokens :
          /\ Len(StreamText(tokens)) + Len(tok[2]) <= MaxTotal
          /\ tokens' = Append(tokens, tok)
          /\ lines' = TokenStep(lines, tok)
    /\ pc' = "loop"
    /\ UNCHANGED <<colVars, mainVars>>

SegFinish ==
    /\ pc = "loop"
    /\ lines' = PopTrailing(lines)
    /\ pc' = "done"
    /\ UNCHANGED <<tokens, colVars, mainVars>>

SegNext == SegIterate \/ SegFinish

SpecSeg == SegInit /\ [][SegNext]_vars

(* -------------------- calls of token_color ----------------------------- *)

ColInit == SegIdle /\ ColIdle /\ MainIdle

Classify ==
    /\ color = <<>>
    /\ \E ty \in TokenTypes :
          /\ tok_type' = ty
          /\ color' = token_color(ty)
    /\ UNCHANGED <<segVars, mainVars>>

SpecColor == ColInit /\ [][Classify]_vars

(* -------------------------------- main --------------------------------- *)
(* A file name is a sequence of pieces; no piece is a prefix of another,   *)
(* so comparing names piece by piece is comparing them character by        *)
(* character.  PieceOrder lists the pieces in character-code order.        *)

PieceOrder == <<".", "DOCX", "PNG", "a", "b", "docx", "env", "png",
                "project_files", "py", "sub", "txt">>

PieceRank(c) == CHOOSE i \in 1..Len(PieceOrder) : PieceOrder[i] = c

NamePool == { <<".", "env">>, <<"a", ".", "py">>, <<"a", ".", "png">>,
              <<"b", ".", "PNG">>, <<"b", ".", "txt">>, <<"a", ".", "DOCX">>,
              <<"project_files", ".", "docx">>, <<"sub">> }

MaxEntries == 3

blocksize == 1024

(* where the first zero byte of a file sits (1-based); 0: no zero byte *)
ZeroPositions == {0, blocksize, blocksize + 1}

FileAttrs == [isfile : {FALSE}, zero : {0}] \cup [isfile : {TRUE}, zero : ZeroPositions]

Folders ==
    UNION {[S -> FileAttrs] : S \in {T \in SUBSET NamePool : Cardinality(T) <= MaxEntries}}

(* the texts that the tokenizer returns for the files of the folder *)
Contents == { <<>>,
              << <<<<"Keyword">>, <<"x">>>>, <<<<"Text">>, <<"LF", "TAB", "x", "LF">>>> >> }

OUTPUT_NAME == <<"project_files", ".", "docx">>

IMAGE_EXTENSIONS == { <<".", "png">>, <<".", "jpg">>, <<".", "jpeg">>, <<".", "gif">>,
                      <<".", "bmp">>, <<".", "tiff">>, <<".", "tif">>, <<".", "webp">> }

(* str.lower() *)
lower(name) ==
    [i \in 1..Len(name) |->
        CASE name[i] = "DOCX" -> "docx" [] name[i] = "PNG" -> "png" [] OTHER -> name[i]]

(* name.startswith('.') *)
startswith(name, prefix) ==
    Len(name) >= Len(prefix) /\ SubSeq(name, 1, Len(prefix)) = prefix

(* os.path.splitext(filename)[1]: from the last dot on; leading dots are   *)
(* not extension separators                                                *)
splitext1(name) ==
    LET dots == {i \in 2..Len(name) :
                    name[i] = "." /\ \E j \in 1..(i - 1) : name[j] # "."}
    IN  IF dots = {} THEN <<>>
        ELSE SubSeq(name, CHOOSE i \in dots : \A j \in dots : j <= i, Len(name))

(* is_image_file that compares the extension without lower() *)
is_image_file_case_sensitive(filename) == splitext1(filename) \in IMAGE_EXTENSIONS

is_image_file(filename) == lower(splitext1(filename)) \in IMAGE_EXTENSIONS

(* is_text_file that reads the whole file instead of f.read(blocksize) *)
is_text_file_whole(zero, open_ok) == open_ok /\ zero = 0

(* is_text_file: open_ok is whether open(path, "rb") succeeded *)
is_text_file(zero, open_ok) ==
    IF open_ok THEN ~(zero >= 1 /\ zero <= blocksize) ELSE FALSE

(* a < b for str *)
RECURSIVE NameLess(_, _)
NameLess(a, b) ==
    IF b = <<>> THEN FALSE
    ELSE IF a = <<>> THEN TRUE
    ELSE IF Head(a) # Head(b) THEN PieceRank(Head(a)) < PieceRank(Head(b))
    ELSE NameLess(Tail(a), Tail(b))

(* sorted() replaced by the listing in descending order *)
RECURSIVE sorted_descending(_)
sorted_descending(S) ==
    IF S = {} THEN <<>>
    ELSE LET m == CHOOSE x \in S : \A y \in S \ {x} : NameLess(y, x)
         IN  <<m>> \o sorted_descending(S \ {m})

(* sorted(os.listdir(cwd)) *)
RECURSIVE sorted(_)
sorted(S) ==
    IF S = {} THEN <<>>
    ELSE LET m == CHOOSE x \in S : \A y \in S \ {x} : NameLess(x, y)
         IN  <<m>> \o sorted(S \ {m})

(* elements of the document; src names the entry whose loop iteration      *)
(* appended the element (<<>> for the elements main appends after the loop)*)
Title(name) == [kind |-> "title", src |-> name, text |-> name]

Para(name, text) == [kind |-> "para", src |-> name, text |-> text]

Shaded(name, kind, runs) ==
    [kind |-> kind, src |-> name, fill |-> CODE_BG_HEX, runs |-> runs]

TextRGB == hex_to_rgb(MapGet(<<"Text">>))

(* lines 96-113 *)
RECURSIVE TokensLoop(_, _)
TokensLoop(ls, toks) ==
    IF toks = <<>> THEN ls ELSE TokensLoop(TokenStep(ls, Head(toks)), Tail(toks))

Segment(toks) == PopTrailing(TokensLoop(<< <<>> >>, toks))

(* the runs of one styled paragraph, lines 119-132 *)
LineRuns(line_tokens) ==
    IF line_tokens = <<>> THEN << [text |-> <<"SP">>, rgb |-> TextRGB] >>
    ELSE [i \in 1..Len(line_tokens) |->
             [text |-> line_tokens[i][2], rgb |-> token_color(line_tokens[i][1])]]

(* lines 115-132 run to the end *)
StyledParagraphs(name, ls) ==
    LET out == IF ls = <<>> THEN << <<>> >> ELSE ls
    IN  [i \in 1..Len(out) |-> Shaded(name, "line", LineRuns(out[i]))]

(* lines 115-132 cut short by an exception in paragraph k: the paragraphs  *)
(* before it are complete, paragraph k is in the document without runs     *)
PartialParagraphs(name, ls, k) ==
    IF k = 0 THEN <<>>
    ELSE SubSeq(StyledParagraphs(name, ls), 1, k - 1) \o <<Shaded(name, "line", <<>>)>>

(* lines 262-268 *)
FallbackBlock(name, content) ==
    Shaded(name, "fallback", << [text |-> StreamText(content), rgb |-> TextRGB] >>)

BinaryNotice == "<Binary or non-text file - skipped>"

MainInit ==
    /\ SegIdle /\ ColIdle
    /\ root \in {[isdir |-> FALSE, files |-> <<>>]}
                \cup {[isdir |-> TRUE, files |-> f] : f \in Folders}
    /\ entries = <<>> /\ pos = 0 /\ any_files = FALSE
    /\ doc = <<>> /\ io = <<>> /\ run = "start"

(* lines 224-226 *)
MainInvalidRoot ==
    /\ run = "start"
    /\ ~root.isdir
    /\ run' = "exit1"
    /\ UNCHANGED <<root, entries, pos, any_files, doc, io, segVars, colVars>>

(* lines 228-232 *)
MainListing ==
    /\ run = "start"
    /\ root.isdir
    /\ entries' = sorted(DOMAIN root.files)
    /\ pos' = 1
    /\ run' = "loop"
    /\ UNCHANGED <<root, any_files, doc, io, segVars, colVars>>

InLoop == run = "loop" /\ pos <= Len(entries)

(* lines 235-244: the entry of this iteration is skipped *)
Skipped(name) ==
    \/ startswith(name, <<".">>)
    \/ endswith(lower(name), <<".", "docx">>)
    \/ is_image_file(name)
    \/ ~root.files[name].isfile

MainSkip ==
    /\ InLoop
    /\ Skipped(entries[pos])
    /\ pos' = pos + 1
    /\ UNCHANGED <<root, entries, any_files, doc, io, run, segVars, colVars>>

(* lines 246-250, 269-272 *)
MainBinary ==
    /\ InLoop
    /\ ~Skipped(entries[pos])
    /\ LET name == entries[pos] IN
       \E open_ok \in BOOLEAN :
          /\ ~is_text_file(root.files[name].zero, open_ok)
          /\ doc' = doc \o <<Title(name), Para(name, BinaryNotice), Para(name, "")>>
          /\ io' = Append(io, [name |-> name, open_ok |-> open_ok, read_ok |-> FALSE,
                               called |-> FALSE, raised |-> FALSE])
    /\ any_files' = TRUE
    /\ pos' = pos + 1
    /\ UNCHANGED <<root, entries, run, segVars, colVars>>

(* lines 246-257: the file passes is_text_file and cannot be read *)
MainUnreadable ==
    /\ InLoop
    /\ ~Skipped(entries[pos])
    /\ LET name == entries[pos] IN
          /\ is_text_file(root.files[name].zero, TRUE)
          /\ doc' = doc \o <<Title(name), Para(name, "<Could not read file>")>>
          /\ io' = Append(io, [name |-> name, open_ok |-> TRUE, read_ok |-> FALSE,
                               called |-> FALSE, raised |-> FALSE])
    /\ any_files' = TRUE
    /\ pos' = pos + 1
    /\ UNCHANGED <<root, entries, run, segVars, colVars>>

(* lines 246-260, 272: add_colored_code_block returns *)
MainStyled ==
    /\ InLoop
    /\ ~Skipped(entries[pos])
    /\ LET name == entries[pos] IN
       \E content \in Contents :
          /\ is_text_file(root.files[name].zero, TRUE)
          /\ doc' = doc \o <<Title(name)>> \o StyledParagraphs(name, Segment(content))
                        \o <<Para(name, "")>>
          /\ io' = Append(io, [name |-> name, open_ok |-> TRUE, read_ok |-> TRUE,
                               called |-> TRUE, raised |-> FALSE])
    /\ any_files' = TRUE
    /\ pos' = pos + 1
    /\ UNCHANGED <<root, entries, run, segVars, colVars>>

(* the points at which add_colored_code_block can raise: 0 in lex(), k in  *)
(* the emission of paragraph k                                             *)
RaisePoints(content) ==
    0..Len(StyledParagraphs(<<>>, Segment(content)))

(* lines 246-268, 272: add_colored_code_block raises, the fallback is emitted *)
MainFallback ==
    /\ InLoop
    /\ ~Skipped(entries[pos])
    /\ LET name == entries[pos] IN
       \E content \in Contents : \E k \in RaisePoints(content) :
          /\ is_text_file(root.files[name].zero, TRUE)
          /\ doc' = doc \o <<Title(name)>> \o PartialParagraphs(name, Segment(content), k)
                        \o <<FallbackBlock(name, content), Para(name, "")>>
          /\ io' = Append(io, [name |-> name, open_ok |-> TRUE, read_ok |-> TRUE,
                               called |-> TRUE, raised |-> TRUE])
    /\ any_files' = TRUE
    /\ pos' = pos + 1
    /\ UNCHANGED <<root, entries, run, segVars, colVars>>

(* lines 246-264: add_colored_code_block raises and p.add_run(content) of  *)
(* the except branch raises too; nothing catches it and main ends          *)
MainFallbackRaises ==
    /\ InLoop
    /\ ~Skipped(entries[pos])
    /\ LET name == entries[pos] IN
       \E content \in Contents : \E k \in RaisePoints(content) :
          /\ is_text_file(root.files[name].zero, TRUE)
          /\ doc' = doc \o <<Title(name)>> \o PartialParagraphs(name, Segment(content), k)
                        \o <<Shaded(name, "fallback", <<>>)>>
          /\ io' = Append(io, [name |-> name, open_ok |-> TRUE, read_ok |-> TRUE,
                               called |-> TRUE, raised |-> TRUE])
    /\ any_files' = TRUE
    /\ run' = "traceback"
    /\ UNCHANGED <<root, entries, pos, segVars, colVars>>

(* add_screenshots_section, lines 170-213; failed holds the images that    *)
(* add_picture could not load                                              *)
ImageFiles ==
    LET listing == sorted(DOMAIN root.files)
        keep == {i \in 1..Len(listing) :
                    /\ ~startswith(listing[i], <<".">>)
                    /\ ~endswith(lower(listing[i]), <<".", "docx">>)
                    /\ root.files[listing[i]].isfile
                    /\ is_image_file(listing[i])}
    IN  sorted({listing[i] : i \in keep})

add_screenshots_section(failed) ==
    LET image_files == ImageFiles
    IN  IF image_files = <<>>
        THEN <<Para(<<>>, "No screenshots found in folder.")>>
        ELSE << [kind |-> "table", src |-> <<>>,
                 rows |-> (Len(image_files) + 1) \div 2, cols |-> 2,
                 cells |-> [i \in 1..Len(image_files) |->
                              [row |-> (i - 1) \div 2, col |-> (i - 1) % 2,
                               name |-> image_files[i],
                               loaded |-> image_files[i] \notin failed]]],
               Para(<<>>, "") >>

(* lines 274-290 *)
MainFinish ==
    /\ run = "loop"
    /\ pos > Len(entries)
    /\ \E failed \in SUBSET {ImageFiles[i] : i \in 1..Len(ImageFiles)} :
          doc' = doc
                 \o (IF ~any_files
                     THEN <<Para(<<>>, "No code files found in this folder.")>> ELSE <<>>)
                 \o << [kind |-> "heading", src |-> <<>>, text |-> "Screenshots:"],
                       Para(<<>>, "") >>
                 \o add_screenshots_section(failed)
                 \o <<Para(<<>>, "Done.")>>
    /\ run' = "saved"
    /\ UNCHANGED <<root, entries, pos, any_files, io, segVars, colVars>>

MainNext ==
    \/ MainInvalidRoot \/ MainListing \/ MainSkip \/ MainBinary \/ MainUnreadable
    \/ MainStyled \/ MainFallback \/ MainFallbackRaises \/ MainFinish

Spec == MainInit /\ [][MainNext]_vars

(* ============== properties of the Line Segmenter ===================== *)

Markers == {<<"LF">>, <<"CR", "LF">>, <<"CR">>}

(* number of line-ending markers of a text; "\r\n" is one marker *)
RECURSIVE CountMarkers(_)
CountMarkers(t) ==
    IF t = <<>> THEN 0
    ELSE IF Head(t) = "CR" /\ Len(t) >= 2 /\ t[2] = "LF"
         THEN 1 + CountMarkers(SubSeq(t, 3, Len(t)))
    ELSE (IF Head(t) \in {"LF", "CR"} THEN 1 ELSE 0) + CountMarkers(Tail(t))

EndsWithMarker(t) == t # <<>> /\ t[Len(t)] \in {"LF", "CR"}

SpanTexts(line) == Concat([i \in 1..Len(line) |-> line[i][2]])

(* the Span texts of each Line concatenated, the Lines joined with "\n" *)
RECURSIVE Joined(_)
Joined(ls) ==
    IF ls = <<>> THEN <<>>
    ELSE IF Len(ls) = 1 THEN SpanTexts(ls[1])
    ELSE SpanTexts(ls[1]) \o <<"LF">> \o Joined(Tail(ls))

TabsExpanded(t) ==
    Concat([i \in 1..Len(t) |->
               IF t[i] = "TAB" THEN <<"SP", "SP", "SP", "SP">> ELSE <<t[i]>>])

RECURSIVE CrlfToLf(_)
CrlfToLf(t) ==
    IF t = <<>> THEN <<>>
    ELSE IF Head(t) = "CR" /\ Len(t) >= 2 /\ t[2] = "LF"
         THEN <<"LF">> \o CrlfToLf(SubSeq(t, 3, Len(t)))
    ELSE <<Head(t)>> \o CrlfToLf(Tail(t))

DropLast(t, n) == SubSeq(t, 1, Len(t) - n)

(* t itself, or t with one trailing line-ending marker removed *)
TrailingNewlineVariants(t) ==
    {t} \cup {DropLast(t, Len(m)) : m \in {mk \in Markers : endswith(t, mk)}}

(* C1 as stated: at the end of the token loop the Span texts of each Line, *)
(* the Lines joined by one newline, equal the concatenated token texts     *)
(* with tabs expanded to 4 spaces and at most one trailing newline removed *)
C1_RoundTripAsStated ==
    pc = "done" =>
        Joined(lines) \in TrailingNewlineVariants(TabsExpanded(StreamText(tokens)))

NormalisedStream(toks) ==
    Concat([i \in 1..Len(toks) |-> CrlfToLf(TabsExpanded(toks[i][2]))])

(* C1 amended: the joined Lines equal the concatenation of the token texts *)
(* with every tab replaced by 4 spaces and every "\r\n" lying inside one   *)
(* token replaced by "\n" (a lone "\r" is kept), with one trailing "\n"    *)
(* removed when that text ends with "\n"                                   *)
C1_RoundTrip ==
    pc = "done" =>
        LET t == NormalisedStream(tokens)
        IN  Joined(lines) = IF endswith(t, <<"LF">>) THEN DropLast(t, 1) ELSE t

HasCrlf(t) == \E i \in 1..(Len(t) - 1) : t[i] = "CR" /\ t[i + 1] = "LF"

C1_Witness ==
    /\ pc = "done"
    /\ Len(tokens) >= 2
    /\ \E i \in 1..Len(tokens) : HasCrlf(tokens[i][2])
    /\ \E i \in 1..Len(tokens) : \E j \in 1..Len(tokens[i][2]) : tokens[i][2][j] = "TAB"
    /\ endswith(StreamText(tokens), <<"LF">>)
    /\ Len(lines) = 1

(* C2: the number of Lines returned is never zero; it is the number of     *)
(* line-ending markers of the stream's text when that text is non-empty    *)
(* and ends with a marker, and that number plus one otherwise              *)
C2_LineCount ==
    pc = "done" =>
        LET t == StreamText(tokens)
            m == CountMarkers(t)
        IN  /\ Len(lines) >= 1
            /\ Len(lines) = IF EndsWithMarker(t) THEN m ELSE m + 1

(* C3: a Token whose text is exactly one line-ending marker closes the     *)
(* current Line unchanged and opens a new empty one; no Span is added      *)
C3_MarkerOnlyToken ==
    [][(/\ pc = "loop"
        /\ Len(tokens') = Len(tokens) + 1
        /\ tokens'[Len(tokens')][2] \in Markers)
       => (/\ Len(lines') = Len(lines) + 1
           /\ SubSeq(lines', 1, Len(lines)) = lines
           /\ lines'[Len(lines')] = <<>>)]_vars

(* C4: every Span of every Line has a non-empty text that holds no         *)
(* line-ending character                                                   *)
C4_SpanInvariant ==
    \A i \in 1..Len(lines) : \A j \in 1..Len(lines[i]) :
        /\ lines[i][j][2] # <<>>
        /\ \A n \in 1..Len(lines[i][j][2]) : lines[i][j][2][n] \notin {"LF", "CR"}

(* C5: a Token with k >= 1 line-ending markers adds at most one Span, of   *)
(* its own category, to the open Line and to each of the k Lines it opens, *)
(* after the Spans already there, and changes no other Line                *)
C5_MultiLineToken ==
    [][(/\ pc = "loop"
        /\ Len(tokens') = Len(tokens) + 1
        /\ CountMarkers(tokens'[Len(tokens')][2]) >= 1)
       => LET tok == tokens'[Len(tokens')]
              k == CountMarkers(tok[2])
              n == Len(lines)
              OwnSpans(l) == /\ Len(l) <= 1
                             /\ \A j \in 1..Len(l) : l[j][1] = tok[1]
          IN  /\ Len(lines') = n + k
              /\ SubSeq(lines', 1, n - 1) = SubSeq(lines, 1, n - 1)
              /\ Len(lines'[n]) >= Len(lines[n])
              /\ SubSeq(lines'[n], 1, Len(lines[n])) = lines[n]
              /\ OwnSpans(SubSeq(lines'[n], Len(lines[n]) + 1, Len(lines'[n])))
              /\ \A i \in (n + 1)..(n + k) : OwnSpans(lines'[i])]_vars


(* ================= properties of token_color ========================== *)

DarculaRGB ==
    [Comment |-> <<128, 128, 128>>, Keyword |-> <<204, 120, 50>>,
     Function |-> <<255, 198, 109>>, Class |-> <<255, 198, 109>>,
     Builtin |-> <<169, 183, 198>>, String |-> <<106, 135, 89>>,
     Number |-> <<104, 151, 187>>, Operator |-> <<169, 183, 198>>,
     Punctuation |-> <<169, 183, 198>>, Name |-> <<169, 183, 198>>,
     Text |-> <<169, 183, 198>>, Error |-> <<255, 0, 0>>,
     Literal |-> <<106, 135, 89>>]

GenericOrder == <<"Comment", "Keyword", "String", "Number", "Operator",
                  "Punctuation", "Name", "Text", "Error", "Literal">>

PrioritySubTags == {"Function", "Class", "Builtin"}

HasSubTag(s, sub) == Contains(s, <<"Name", ".", sub>>)

(* C6: the colour is that of a priority sub-tag (Name.Function,            *)
(* Name.Class, Name.Builtin) when the category holds one; otherwise that   *)
(* of the first table key the category holds; otherwise the colour of Text *)
C6_Precedence ==
    color # <<>> =>
        LET s == str(tok_type)
            held == {i \in 1..Len(GenericOrder) : Contains(s, <<GenericOrder[i]>>)}
        IN  IF \E sub \in PrioritySubTags : HasSubTag(s, sub)
            THEN color \in {DarculaRGB[sub] : sub \in {x \in PrioritySubTags : HasSubTag(s, x)}}
            ELSE IF held # {}
            THEN color = DarculaRGB[GenericOrder[CHOOSE i \in held : \A j \in held : i <= j]]
            ELSE color = DarculaRGB["Text"]

C6_Witness ==
    /\ tok_type = <<"Comment", "Name", "Function">>
    /\ color = <<255, 198, 109>>

(* ======================= properties of main =========================== *)

IsHidden(n) == n[1] = "."

LastExtension(n) == IF Len(n) >= 3 /\ n[Len(n) - 1] = "." THEN n[Len(n)] ELSE ""

IsDocxName(n) == LastExtension(n) \in {"docx", "DOCX"}

IsImageName(n) == LastExtension(n) \in {"png", "PNG"}

(* regular file that is not hidden, not a .docx and not an image *)
EligibleNames ==
    {n \in DOMAIN root.files :
        root.files[n].isfile /\ ~IsHidden(n) /\ ~IsDocxName(n) /\ ~IsImageName(n)}

IsTitle(e) == e.kind = "title"

Titles == SelectSeq(doc, IsTitle)

(* the elements that the iteration of entry n appended, the title excluded *)
BodyOf(n) ==
    LET FromN(e) == e.src = n /\ e.kind # "title" IN SelectSeq(doc, FromN)

Blank(n) == Para(n, "")

(* C7 as stated: on a valid root the run never ends before the document is *)
(* saved: every eligible file has its title and the document ends with the *)
(* "Done." line, whatever failed while a file was processed                *)
C7_FailureIsolation ==
    (root.isdir /\ run \notin {"start", "loop"}) =>
        /\ run = "saved"
        /\ \A n \in EligibleNames : \E i \in 1..Len(doc) : doc[i] = Title(n)
        /\ doc[Len(doc)] = Para(<<>>, "Done.")

(* C8 as stated: while the run goes on, the body of a file for which       *)
(* add_colored_code_block raised is the fallback block alone (one run in   *)
(* the default colour on the dark background, then the blank separator)    *)
C8_FallbackAlone ==
    run # "traceback" =>
        \A i \in 1..Len(io) :
            io[i].raised =>
                LET body == BodyOf(io[i].name)
                IN  /\ Len(body) = 2
                    /\ body[1].kind = "fallback"
                    /\ body[1].fill = CODE_BG_HEX
                    /\ Len(body[1].runs) = 1
                    /\ body[1].runs[1].rgb = <<169, 183, 198>>
                    /\ body[2] = Blank(io[i].name)

IsGallery(e) ==
    \/ e.kind = "table"
    \/ e = Para(<<>>, "No screenshots found in folder.")

(* C9: the saved document holds one section per eligible file in sorted    *)
(* name order, every section being the file's title followed by the        *)
(* elements of that file only, then the "Screenshots:" heading, then the   *)
(* gallery or its no-images line, and the "Done." line last; no other      *)
(* entry of the folder has a title                                         *)
C9_OutputOrder ==
    run = "saved" =>
        /\ {Titles[i].text : i \in 1..Len(Titles)} = EligibleNames
        /\ \A i \in 1..(Len(Titles) - 1) : NameLess(Titles[i].text, Titles[i + 1].text)
        /\ \A i \in 1..Len(doc) :
              /\ doc[i].kind = "title" => doc[i].src = doc[i].text
              /\ (doc[i].src # <<>> /\ doc[i].kind # "title")
                    => (i > 1 /\ doc[i - 1].src = doc[i].src)
        /\ \E h \in 1..Len(doc) : \E g \in (h + 1)..(Len(doc) - 1) :
              /\ doc[h].kind = "heading" /\ doc[h].text = "Screenshots:"
              /\ IsGallery(doc[g])
              /\ \A i \in 1..Len(doc) : doc[i].src # <<>> <=> i < h - (IF any_files THEN 0 ELSE 1)
              /\ \A i \in 1..Len(doc) : (i # h => doc[i].kind # "heading")
                                        /\ (i # g => ~IsGallery(doc[i]))
        /\ doc[Len(doc)] = Para(<<>>, "Done.")
        /\ \A i \in 1..(Len(doc) - 1) : doc[i] # Para(<<>>, "Done.")

C9_Witness ==
    /\ run = "saved"
    /\ Len(Titles) = 2
    /\ \E n \in DOMAIN root.files : root.files[n].isfile /\ IsImageName(n)
    /\ \E i \in 1..Len(doc) : doc[i].kind = "table"
    /\ \E i \in 1..Len(io) : io[i].raised

HasNotice(body) == \E j \in 1..Len(body) : body[j].kind = "para" /\ body[j].text = BinaryNotice

(* C10 as stated: a file with a zero byte anywhere is never handed to      *)
(* add_colored_code_block and its body is the placeholder line alone; a    *)
(* file without zero byte that can be read is handed to it                 *)
C10_ZeroByteAnywhere ==
    \A i \in 1..Len(io) :
        LET n == io[i].name
            z == root.files[n].zero
        IN  /\ z # 0 => (/\ ~io[i].called
                         /\ BodyOf(n) = <<Para(n, BinaryNotice), Blank(n)>>)
            /\ (z = 0 /\ io[i].open_ok /\ io[i].read_ok) => io[i].called

(* C10 amended: a file with a zero byte among its first 1024 bytes is      *)
(* never handed to add_colored_code_block and its body is the placeholder  *)
(* line alone; a file without zero byte among its first 1024 bytes that    *)
(* can be opened gets no placeholder and, when it can be read, is handed   *)
(* to add_colored_code_block                                               *)
C10_ZeroByteInProbe ==
    \A i \in 1..Len(io) :
        LET n == io[i].name
            z == root.files[n].zero
            inProbe == z >= 1 /\ z <= 1024
        IN  /\ inProbe => (/\ ~io[i].called
                           /\ BodyOf(n) = <<Para(n, BinaryNotice), Blank(n)>>)
            /\ (~inProbe /\ io[i].open_ok)
                  => (/\ ~HasNotice(BodyOf(n))
                      /\ io[i].read_ok
                            => (/\ io[i].called
                                /\ \E j \in 1..Len(BodyOf(n)) :
                                       BodyOf(n)[j].kind \in {"line", "fallback"}))

C10_Witness ==
    /\ \E i \in 1..Len(io) : root.files[io[i].name].zero = 1024 /\ ~io[i].called
    /\ \E i \in 1..Len(io) : root.files[io[i].name].zero = 1025 /\ io[i].called

====
